---- MODULE Spec2Model ----
(***************************************************************************)
(* Model of src/main.rs of hft-rust: three threads sharing two RwLock'ed   *)
(* vectors.                                                                *)
(*   - the HFT updater thread (lines 74-92) random-walks every             *)
(*     MarketData.price, clamps it at 0 and keeps a bounded history;       *)
(*   - the Frontend updater thread (lines 94-113) random-walks every       *)
(*     UiData.value (no clamp) and keeps a bounded history;                *)
(*   - the render loop of main (lines 122-227) clones both vectors under   *)
(*     read locks and draws them, until 'q' is pressed.                    *)
(*                                                                         *)
(* f64 values are fixed-point integers: the real x is the integer          *)
(* x * Scale.  An Instant is a reading of the monotonic clock; each thread   *)
(* keeps its latest reading and every Instant::now() it calls returns a    *)
(* later one.  Readings of different threads are not ordered here: the     *)
(* program never compares them outside the display.                        *)
(* A lock is poisoned when its write guard is dropped by a panicking        *)
(* thread; write().unwrap() and read().unwrap() panic on a poisoned lock,  *)
(* and a panic of the main thread ends the process.  Spec has no panic     *)
(* under a guard; SpecPanic adds one as a step of either updater.          *)
(* Positions of a Rust Vec are 0-based; here position i of the source is   *)
(* index i + 1, and the count field keeps the source's 0-based number.     *)
(***************************************************************************)
EXTENDS Integers, Sequences, FiniteSets, TLC

\* ---------------------------------------------------------------- bounds
Scale == 2          \* fixed-point resolution: 1.0 is Scale units
MaxPasses == 2      \* passes of the two updater loops explored, in total

\* ------------------------------------------------------ program constants
HISTORY_LEN == 100
n_stocks == 3
StartValue == 100 * Scale

Idx == 1..n_stocks

\* rng.gen_range(-1.0..1.0) and rng.gen_range(-2.0..2.0): half-open ranges
GenRange == (-1 * Scale)..(1 * Scale - 1)
AggRange == (-2 * Scale)..(2 * Scale - 1)
\* a variant of GenDraws for a range of -2.0..2.0
GenDraws_wide == {-2 * Scale, 2 * Scale - 1}

\* the draws that are explored: the two ends of each range
GenDraws == {-1 * Scale, 1 * Scale - 1}

\* a variant of AggDraws for a range of -3.0..3.0
AggDraws_wide == {-3 * Scale, 3 * Scale - 1}

AggDraws == {-2 * Scale, 2 * Scale - 1}

\* ------------------------------------------------------------ pure helpers
Max(a, b) == IF a >= b THEN a ELSE b

Last(s) == s[Len(s)]

\* vec![v; n]
Fill(v, n) == [j \in 1..n |-> v]

\* a variant of RemoveFront that drops the back element instead (Vec::pop)
RemoveFront_back(s) == SubSeq(s, 1, Len(s) - 1)

\* Vec::remove(0): drops the front element, shifts the rest down
RemoveFront(s) == SubSeq(s, 2, Len(s))

\* the last n elements of s (all of s when it is shorter)
LastN(s, n) == IF Len(s) <= n THEN s ELSE SubSeq(s, Len(s) - n + 1, Len(s))

RECURSIVE SumSeq(_)
SumSeq(s) == IF s = <<>> THEN 0 ELSE s[1] + SumSeq(Tail(s))

\* a variant of ClampedAdd without the floor
ClampedAdd_unclamped(p, d) == p + d

\* (md.price + delta).max(0.0)
ClampedAdd(p, d) == Max(p + d, 0)

\* md.history.push(md.price)
PushHistory(e, v) == [e EXCEPT !.history = Append(@, v)]

\* a variant of EvictHistory whose comparison is off by one
EvictHistory_late(e, cap) ==
    IF Len(e.history) > cap + 1 THEN [e EXCEPT !.history = RemoveFront(@)] ELSE e

\* if md.history.len() > HISTORY_LEN { md.history.remove(0); }
EvictHistory(e, cap) ==
    IF Len(e.history) > cap THEN [e EXCEPT !.history = RemoveFront(@)] ELSE e

\* one whole loop body of the HFT updater on one entry, reading the clock as t
TickEntry(e, d, t, cap) ==
    EvictHistory(
        PushHistory([e EXCEPT !.price = ClampedAdd(@, d), !.last_update = t],
                    ClampedAdd(e.price, d)),
        cap)

\* one whole loop body of the Frontend updater on one entry
AggEntry(e, d, t, cap) ==
    EvictHistory(
        PushHistory([e EXCEPT !.value = @ + d, !.last_update = t], e.value + d),
        cap)

\* ------------------------------------------------------------------ state
VARIABLES
    market_data,  \* Arc<RwLock<Vec<MarketData>>>: the vector
    ui_data,      \* Arc<RwLock<Vec<UiData>>>: the vector
    md_lock,      \* the RwLock around market_data: [writer, readers, poisoned]
    ui_lock,      \* the RwLock around ui_data: [writer, readers, poisoned]
    gen_pc,       \* HFT updater thread: the statement it is at
    gen_i,        \* HFT updater thread: position of vec.iter_mut()
    gen_delta,    \* HFT updater thread: the local delta
    gen_passes,   \* passes of the HFT updater loop begun
    gen_now,      \* HFT updater thread: its latest Instant::now() reading
    agg_pc,       \* Frontend updater thread: the statement it is at
    agg_i,        \* Frontend updater thread: position of vec.iter_mut()
    agg_delta,    \* Frontend updater thread: the local delta
    agg_passes,   \* passes of the Frontend updater loop begun
    agg_now,      \* Frontend updater thread: its latest Instant::now() reading
    rnd_pc,       \* main thread: the statement of the render loop it is at
    md_vec,       \* main thread: the local md_vec (<<>> when out of scope)
    ui_vec,       \* main thread: the local ui_vec (<<>> when out of scope)
    md_log,       \* history variable: per entry, every price computed since Init
    ui_log,       \* history variable: per entry, every value computed since Init
    md_seen,      \* history variable: Len of each md_log when md_vec was cloned
    ui_seen,      \* history variable: Len of each ui_log when ui_vec was cloned
    agg_mark,     \* history variable: the values of ui_data at the end of the
                  \* last completed Frontend pass
    skew          \* history variable: what the writers did since md_vec was
                  \* cloned and before ui_vec is: "none", "md_moved" (market_data
                  \* was written), "torn" (ui_data was written after that)

vars == <<market_data, ui_data, md_lock, ui_lock,
          gen_pc, gen_i, gen_delta, gen_passes, gen_now,
          agg_pc, agg_i, agg_delta, agg_passes, agg_now,
          rnd_pc, md_vec, ui_vec,
          md_log, ui_log, md_seen, ui_seen, agg_mark, skew>>

gen_vars == <<gen_pc, gen_i, gen_delta, gen_passes, gen_now>>
agg_vars == <<agg_pc, agg_i, agg_delta, agg_passes, agg_now>>
rnd_vars == <<rnd_pc, md_vec, ui_vec, md_seen, ui_seen>>

\* the render loop is between its two clones
BetweenClones == rnd_pc = "read_ui"

\* skew after a write to market_data, after a write to ui_data
SkewAfterGen == IF BetweenClones /\ skew = "none" THEN "md_moved" ELSE skew
SkewAfterAgg == IF BetweenClones /\ skew = "md_moved" THEN "torn" ELSE skew

Unlocked == [writer |-> FALSE, readers |-> 0, poisoned |-> FALSE]

\* a variant of CanWrite that does not wait for readers
CanWrite_ignores_readers(l) == ~l.writer

\* RwLock::write() returns only when nobody holds the lock
CanWrite(l) == ~l.writer /\ l.readers = 0

\* a variant of CanRead that does not wait for the writer
CanRead_always(l) == TRUE

\* RwLock::read() returns only when no writer holds the lock
CanRead(l) == ~l.writer

\* ------------------------------------------------------------ construction
\* a variant of NewMarketData whose histories start empty (Vec::new())
NewMarketData_unfilled == [i \in Idx |->
    [count |-> i - 1, price |-> StartValue, last_update |-> i,
     history |-> <<>>]]

\* lines 50-59: MarketData { count: i, price: 100.0, last_update: now, history }
NewMarketData == [i \in Idx |->
    [count |-> i - 1, price |-> StartValue, last_update |-> i,
     history |-> Fill(StartValue, HISTORY_LEN)]]

\* a variant of NewUiData that numbers the entries from 1
NewUiData_from_one == [i \in Idx |->
    [count |-> i, value |-> StartValue, last_update |-> n_stocks + i,
     history |-> Fill(StartValue, HISTORY_LEN)]]

\* lines 62-71: UiData { count: i, value: 100.0, last_update: now, history }
NewUiData == [i \in Idx |->
    [count |-> i - 1, value |-> StartValue, last_update |-> n_stocks + i,
     history |-> Fill(StartValue, HISTORY_LEN)]]

Threads ==
    /\ md_lock = Unlocked /\ ui_lock = Unlocked
    /\ gen_pc = "lock" /\ gen_i = 0 /\ gen_delta = 0 /\ gen_passes = 0
    /\ agg_pc = "lock" /\ agg_i = 0 /\ agg_delta = 0 /\ agg_passes = 0
    /\ rnd_pc = "poll" /\ md_vec = <<>> /\ ui_vec = <<>>
    /\ md_seen = <<>> /\ ui_seen = <<>> /\ skew = "none"

Init ==
    /\ market_data = NewMarketData
    /\ ui_data = NewUiData
    /\ gen_now = 2 * n_stocks /\ agg_now = 2 * n_stocks
    /\ md_log = [i \in Idx |-> <<>>]
    /\ ui_log = [i \in Idx |-> <<>>]
    /\ agg_mark = [i \in Idx |-> NewUiData[i].value]
    /\ Threads

\* ------------------------------------------------- a state late in a run
\* one pass of the HFT updater loop in which every draw is d; t is the
\* thread's latest clock reading before the pass
GenPass(md, d, t) ==
    [i \in Idx |-> TickEntry(md[i], d, t + i, HISTORY_LEN)]

\* one pass of the Frontend updater loop in which every draw is d
AggPass(ui, d, t) ==
    [i \in Idx |-> AggEntry(ui[i], d, t + i, HISTORY_LEN)]

RECURSIVE GenRun(_, _, _, _)
GenRun(md, d, t, k) ==
    IF k = 0 \/ Len(md) = 0 THEN md
    ELSE GenRun(GenPass(md, d, t), d, t + n_stocks, k - 1)

RECURSIVE AggRun(_, _, _, _)
AggRun(ui, d, t, k) ==
    IF k = 0 \/ Len(ui) = 0 THEN ui
    ELSE AggRun(AggPass(ui, d, t), d, t + n_stocks, k - 1)

\* the draw -1.0, which both ranges contain
DownDraw == -1 * Scale
\* passes after which a walk of DownDraw steps has come from 100.0 to 0.0
LatePasses == StartValue \div Scale

LateMarketData == GenRun(NewMarketData, DownDraw, 2 * n_stocks, LatePasses)
LateUiData == AggRun(NewUiData, DownDraw, 2 * n_stocks, LatePasses)

\* the program after LatePasses passes of each updater loop, every draw
\* DownDraw, all threads between passes; the logs start here
InitLate ==
    /\ market_data = LateMarketData
    /\ ui_data = LateUiData
    /\ gen_now = 2 * n_stocks + LatePasses * n_stocks
    /\ agg_now = 2 * n_stocks + LatePasses * n_stocks
    /\ md_log = [i \in Idx |-> <<>>]
    /\ ui_log = [i \in Idx |-> <<>>]
    /\ agg_mark = [i \in Idx |-> LateUiData[i].value]
    /\ Threads

\* --------------------------------------------------- HFT updater (74-92)
\* line 80: let mut vec = md_clone.write().unwrap();  line 81: iter_mut()
GenLock ==
    /\ gen_pc = "lock"
    /\ rnd_pc # "exited"
    /\ gen_passes + agg_passes < MaxPasses
    /\ CanWrite(md_lock)
    /\ IF md_lock.poisoned
         THEN \* write() returns Err(PoisonError), unwrap() panics
              /\ gen_pc' = "panicked"
              /\ UNCHANGED <<gen_passes, md_lock, gen_i>>
         ELSE /\ gen_passes' = gen_passes + 1
              /\ md_lock' = [md_lock EXCEPT !.writer = TRUE]
              /\ IF Len(market_data) > 0
                   THEN gen_i' = 1 /\ gen_pc' = "price"
                   ELSE gen_i' = 0 /\ gen_pc' = "unlock"
    /\ UNCHANGED <<market_data, gen_delta, gen_now, md_log, ui_data, ui_lock,
                   agg_vars, rnd_vars, ui_log, agg_mark, skew>>

\* line 82: let delta = rng.gen_range(-1.0..1.0);
\* line 83: md.price = (md.price + delta).max(0.0);
\* line 84: md.last_update = Instant::now();
GenPrice ==
    /\ gen_pc = "price"
    /\ rnd_pc # "exited"
    /\ \E d \in GenDraws :
        /\ gen_delta' = d
        /\ market_data' = [market_data EXCEPT ![gen_i].price = ClampedAdd(@, d),
                                              ![gen_i].last_update = gen_now + 1]
        /\ md_log' = [md_log EXCEPT
                        ![gen_i] = Append(@, ClampedAdd(market_data[gen_i].price, d))]
    /\ gen_now' = gen_now + 1
    /\ gen_pc' = "push"
    /\ skew' = SkewAfterGen
    /\ UNCHANGED <<md_lock, gen_i, gen_passes, ui_data, ui_lock,
                   agg_vars, rnd_vars, ui_log, agg_mark>>

\* line 85: md.history.push(md.price);
GenPush ==
    /\ gen_pc = "push"
    /\ rnd_pc # "exited"
    /\ market_data' = [market_data EXCEPT
                         ![gen_i] = PushHistory(@, market_data[gen_i].price)]
    /\ gen_pc' = "evict"
    /\ skew' = SkewAfterGen
    /\ UNCHANGED <<md_lock, gen_i, gen_delta, gen_passes, gen_now, md_log,
                   ui_data, ui_lock, agg_vars, rnd_vars, ui_log, agg_mark>>

\* line 86: if md.history.len() > HISTORY_LEN { md.history.remove(0); }
\* then the next entry of iter_mut(), or the end of the for loop
GenEvict ==
    /\ gen_pc = "evict"
    /\ rnd_pc # "exited"
    /\ market_data' = [market_data EXCEPT ![gen_i] = EvictHistory(@, HISTORY_LEN)]
    /\ IF gen_i < Len(market_data)
         THEN gen_i' = gen_i + 1 /\ gen_pc' = "price"
         ELSE gen_i' = 0 /\ gen_pc' = "unlock"
    /\ gen_delta' = 0
    /\ skew' = SkewAfterGen
    /\ UNCHANGED <<md_lock, gen_passes, gen_now, md_log, ui_data, ui_lock,
                   agg_vars, rnd_vars, ui_log, agg_mark>>

\* a variant of GenUnlock in which the write guard outlives the block
GenUnlock_keeps_guard ==
    /\ gen_pc = "unlock"
    /\ rnd_pc # "exited"
    /\ gen_pc' = "sleep"
    /\ UNCHANGED <<market_data, md_lock, gen_i, gen_delta, gen_passes, gen_now,
                   md_log, ui_data, ui_lock, agg_vars, rnd_vars, ui_log,
                   agg_mark, skew>>

\* line 88: the write guard goes out of scope
GenUnlock ==
    /\ gen_pc = "unlock"
    /\ rnd_pc # "exited"
    /\ md_lock' = [md_lock EXCEPT !.writer = FALSE]
    /\ gen_pc' = "sleep"
    /\ UNCHANGED <<market_data, gen_i, gen_delta, gen_passes, gen_now, md_log,
                   ui_data, ui_lock, agg_vars, rnd_vars, ui_log, agg_mark,
                   skew>>

\* line 89: thread::sleep(Duration::from_millis(10));
GenSleep ==
    /\ gen_pc = "sleep"
    /\ rnd_pc # "exited"
    /\ gen_pc' = "lock"
    /\ UNCHANGED <<market_data, md_lock, gen_i, gen_delta, gen_passes, gen_now,
                   md_log, ui_data, ui_lock, agg_vars, rnd_vars, ui_log,
                   agg_mark, skew>>

\* ---------------------------------------------- Frontend updater (94-113)
\* line 101: let mut vec = ui_clone.write().unwrap();  line 102: iter_mut()
AggLock ==
    /\ agg_pc = "lock"
    /\ rnd_pc # "exited"
    /\ gen_passes + agg_passes < MaxPasses
    /\ CanWrite(ui_lock)
    /\ IF ui_lock.poisoned
         THEN \* write() returns Err(PoisonError), unwrap() panics
              /\ agg_pc' = "panicked"
              /\ UNCHANGED <<agg_passes, ui_lock, agg_i>>
         ELSE /\ agg_passes' = agg_passes + 1
              /\ ui_lock' = [ui_lock EXCEPT !.writer = TRUE]
              /\ IF Len(ui_data) > 0
                   THEN agg_i' = 1 /\ agg_pc' = "value"
                   ELSE agg_i' = 0 /\ agg_pc' = "unlock"
    /\ UNCHANGED <<ui_data, agg_delta, agg_now, ui_log, agg_mark, market_data,
                   md_lock, gen_vars, rnd_vars, md_log, skew>>

\* a variant of AggValue that writes the price of market_data instead
AggValue_on_market_data ==
    /\ agg_pc = "value"
    /\ rnd_pc # "exited"
    /\ \E d \in AggDraws :
        /\ agg_delta' = d
        /\ market_data' = [market_data EXCEPT ![agg_i].price = @ + d]
        /\ ui_data' = [ui_data EXCEPT ![agg_i].last_update = agg_now + 1]
        /\ ui_log' = [ui_log EXCEPT ![agg_i] = Append(@, ui_data[agg_i].value)]
    /\ agg_now' = agg_now + 1
    /\ agg_pc' = "push"
    /\ skew' = SkewAfterAgg
    /\ UNCHANGED <<ui_lock, agg_i, agg_passes, md_lock,
                   gen_vars, rnd_vars, md_log, agg_mark>>

\* a variant of AggValue with the floor of the HFT updater
AggValue_clamped ==
    /\ agg_pc = "value"
    /\ rnd_pc # "exited"
    /\ \E d \in AggDraws :
        /\ agg_delta' = d
        /\ ui_data' = [ui_data EXCEPT ![agg_i].value = ClampedAdd(@, d),
                                      ![agg_i].last_update = agg_now + 1]
        /\ ui_log' = [ui_log EXCEPT
                        ![agg_i] = Append(@, ClampedAdd(ui_data[agg_i].value, d))]
    /\ agg_now' = agg_now + 1
    /\ agg_pc' = "push"
    /\ skew' = SkewAfterAgg
    /\ UNCHANGED <<ui_lock, agg_i, agg_passes, market_data, md_lock,
                   gen_vars, rnd_vars, md_log, agg_mark>>

\* a variant of AggValue that adds the delta twice
AggValue_twice ==
    /\ agg_pc = "value"
    /\ rnd_pc # "exited"
    /\ \E d \in AggDraws :
        /\ agg_delta' = d
        /\ ui_data' = [ui_data EXCEPT ![agg_i].value = @ + d + d,
                                      ![agg_i].last_update = agg_now + 1]
        /\ ui_log' = [ui_log EXCEPT ![agg_i] = Append(@, ui_data[agg_i].value + d + d)]
    /\ agg_now' = agg_now + 1
    /\ agg_pc' = "push"
    /\ skew' = SkewAfterAgg
    /\ UNCHANGED <<ui_lock, agg_i, agg_passes, market_data, md_lock,
                   gen_vars, rnd_vars, md_log, agg_mark>>

\* line 103: let delta = rng.gen_range(-2.0..2.0);
\* line 104: ui.value += delta;
\* line 105: ui.last_update = Instant::now();
AggValue ==
    /\ agg_pc = "value"
    /\ rnd_pc # "exited"
    /\ \E d \in AggDraws :
        /\ agg_delta' = d
        /\ ui_data' = [ui_data EXCEPT ![agg_i].value = @ + d,
                                      ![agg_i].last_update = agg_now + 1]
        /\ ui_log' = [ui_log EXCEPT ![agg_i] = Append(@, ui_data[agg_i].value + d)]
    /\ agg_now' = agg_now + 1
    /\ agg_pc' = "push"
    /\ skew' = SkewAfterAgg
    /\ UNCHANGED <<ui_lock, agg_i, agg_passes, market_data, md_lock,
                   gen_vars, rnd_vars, md_log, agg_mark>>

\* a variant of AggPush that inserts the value at the front (Vec::insert(0, ..))
AggPush_front ==
    /\ agg_pc = "push"
    /\ rnd_pc # "exited"
    /\ ui_data' = [ui_data EXCEPT
                     ![agg_i].history = <<ui_data[agg_i].value>> \o @]
    /\ agg_pc' = "evict"
    /\ skew' = SkewAfterAgg
    /\ UNCHANGED <<ui_lock, agg_i, agg_delta, agg_passes, agg_now, ui_log,
                   agg_mark, market_data, md_lock, gen_vars, rnd_vars, md_log>>

\* line 106: ui.history.push(ui.value);
AggPush ==
    /\ agg_pc = "push"
    /\ rnd_pc # "exited"
    /\ ui_data' = [ui_data EXCEPT ![agg_i] = PushHistory(@, ui_data[agg_i].value)]
    /\ agg_pc' = "evict"
    /\ skew' = SkewAfterAgg
    /\ UNCHANGED <<ui_lock, agg_i, agg_delta, agg_passes, agg_now, ui_log,
                   agg_mark, market_data, md_lock, gen_vars, rnd_vars, md_log>>

\* line 107: if ui.history.len() > HISTORY_LEN { ui.history.remove(0); }
\* then the next entry of iter_mut(), or the end of the for loop
AggEvict ==
    /\ agg_pc = "evict"
    /\ rnd_pc # "exited"
    /\ ui_data' = [ui_data EXCEPT ![agg_i] = EvictHistory(@, HISTORY_LEN)]
    /\ IF agg_i < Len(ui_data)
         THEN agg_i' = agg_i + 1 /\ agg_pc' = "value"
         ELSE agg_i' = 0 /\ agg_pc' = "unlock"
    /\ agg_delta' = 0
    /\ skew' = SkewAfterAgg
    /\ UNCHANGED <<ui_lock, agg_passes, agg_now, ui_log, agg_mark, market_data,
                   md_lock, gen_vars, rnd_vars, md_log>>

\* a variant of AggUnlock in which the write guard is never dropped
AggUnlock_keeps_guard ==
    /\ agg_pc = "unlock"
    /\ rnd_pc # "exited"
    /\ agg_pc' = "sleep"
    /\ agg_mark' = [i \in Idx |-> ui_data[i].value]
    /\ UNCHANGED <<ui_data, ui_lock, agg_i, agg_delta, agg_passes, agg_now,
                   ui_log, market_data, md_lock, gen_vars, rnd_vars, md_log,
                   skew>>

\* line 109: the write guard goes out of scope
AggUnlock ==
    /\ agg_pc = "unlock"
    /\ rnd_pc # "exited"
    /\ ui_lock' = [ui_lock EXCEPT !.writer = FALSE]
    /\ agg_pc' = "sleep"
    /\ agg_mark' = [i \in Idx |-> ui_data[i].value]
    /\ UNCHANGED <<ui_data, agg_i, agg_delta, agg_passes, agg_now, ui_log,
                   market_data, md_lock, gen_vars, rnd_vars, md_log, skew>>

\* line 110: thread::sleep(Duration::from_millis(500));
AggSleep ==
    /\ agg_pc = "sleep"
    /\ rnd_pc # "exited"
    /\ agg_pc' = "lock"
    /\ UNCHANGED <<ui_data, ui_lock, agg_i, agg_delta, agg_passes, agg_now,
                   ui_log, agg_mark, market_data, md_lock, gen_vars, rnd_vars,
                   md_log, skew>>

\* ------------------------------------------- a panic under a write guard
\* a statement of the for body of the HFT updater panics: the thread unwinds,
\* dropping the write guard, which poisons the lock and releases it
GenPanic ==
    /\ gen_pc \in {"price", "push", "evict"}
    /\ rnd_pc # "exited"
    /\ md_lock' = [md_lock EXCEPT !.writer = FALSE, !.poisoned = TRUE]
    /\ gen_pc' = "panicked"
    /\ UNCHANGED <<market_data, gen_i, gen_delta, gen_passes, gen_now, md_log,
                   ui_data, ui_lock, agg_vars, rnd_vars, ui_log, agg_mark,
                   skew>>

\* the same in the for body of the Frontend updater
AggPanic ==
    /\ agg_pc \in {"value", "push", "evict"}
    /\ rnd_pc # "exited"
    /\ ui_lock' = [ui_lock EXCEPT !.writer = FALSE, !.poisoned = TRUE]
    /\ agg_pc' = "panicked"
    /\ UNCHANGED <<ui_data, agg_i, agg_delta, agg_passes, agg_now, ui_log,
                   agg_mark, market_data, md_lock, gen_vars, rnd_vars, md_log,
                   skew>>

\* ------------------------------------------------- render loop (122-232)
\* what event::poll / event::read deliver: nothing, the key 'q', another key
Keys == {"none", "q", "other"}

\* a variant of RndPoll whose quit check comes after the first read()
RndPoll_quit_after_read ==
    /\ rnd_pc = "poll"
    /\ \E key \in Keys :
        IF key = "q"
          THEN /\ CanRead(md_lock)
               /\ md_lock' = [md_lock EXCEPT !.readers = @ + 1]
               /\ rnd_pc' = "teardown"
          ELSE /\ rnd_pc' = "read_md"
               /\ md_lock' = md_lock
    /\ UNCHANGED <<market_data, ui_data, ui_lock, gen_vars,
                   agg_vars, md_vec, ui_vec, md_seen, ui_seen,
                   md_log, ui_log, agg_mark, skew>>

\* lines 123-127: poll for a key; 'q' breaks out of the loop
RndPoll ==
    /\ rnd_pc = "poll"
    /\ \E key \in Keys :
        IF key = "q"
          THEN rnd_pc' = "teardown"
          ELSE rnd_pc' = "read_md"
    /\ UNCHANGED <<market_data, ui_data, md_lock, ui_lock, gen_vars,
                   agg_vars, md_vec, ui_vec, md_seen, ui_seen,
                   md_log, ui_log, agg_mark, skew>>

\* a variant of RndReadMd that takes the guard out of the PoisonError
\* (unwrap_or_else(|e| e.into_inner())) instead of panicking
RndReadMd_ignores_poison ==
    /\ rnd_pc = "read_md"
    /\ CanRead(md_lock)
    /\ md_lock' = [md_lock EXCEPT !.readers = @ + 1]
    /\ rnd_pc' = "clone_md"
    /\ UNCHANGED <<market_data, ui_data, ui_lock, gen_vars, agg_vars,
                   md_vec, ui_vec, md_seen, ui_seen,
                   md_log, ui_log, agg_mark, skew>>

\* line 129: market_data.read().unwrap()
RndReadMd ==
    /\ rnd_pc = "read_md"
    /\ CanRead(md_lock)
    /\ IF md_lock.poisoned
         THEN \* read() returns Err(PoisonError), unwrap() panics in main:
              \* the process exits, without the teardown
              rnd_pc' = "exited" /\ md_lock' = md_lock
         ELSE /\ md_lock' = [md_lock EXCEPT !.readers = @ + 1]
              /\ rnd_pc' = "clone_md"
    /\ UNCHANGED <<market_data, ui_data, ui_lock, gen_vars, agg_vars,
                   md_vec, ui_vec, md_seen, ui_seen,
                   md_log, ui_log, agg_mark, skew>>

\* a variant of RndCloneMd that keeps the read guard alive
RndCloneMd_keeps_guard ==
    /\ rnd_pc = "clone_md"
    /\ md_vec' = market_data
    /\ md_seen' = [i \in Idx |-> Len(md_log[i])]
    /\ rnd_pc' = "read_ui"
    /\ skew' = "none"
    /\ UNCHANGED <<market_data, ui_data, md_lock, ui_lock, gen_vars, agg_vars,
                   ui_vec, ui_seen, md_log, ui_log, agg_mark>>

\* line 129: .clone(); the read guard is a temporary, dropped with the statement
RndCloneMd ==
    /\ rnd_pc = "clone_md"
    /\ md_vec' = market_data
    /\ md_seen' = [i \in Idx |-> Len(md_log[i])]
    /\ md_lock' = [md_lock EXCEPT !.readers = @ - 1]
    /\ rnd_pc' = "read_ui"
    /\ skew' = "none"
    /\ UNCHANGED <<market_data, ui_data, ui_lock, gen_vars, agg_vars,
                   ui_vec, ui_seen, md_log, ui_log, agg_mark>>

\* line 130: ui_data.read().unwrap()
RndReadUi ==
    /\ rnd_pc = "read_ui"
    /\ CanRead(ui_lock)
    /\ IF ui_lock.poisoned
         THEN \* read() returns Err(PoisonError), unwrap() panics in main:
              \* the process exits, without the teardown
              rnd_pc' = "exited" /\ ui_lock' = ui_lock
         ELSE /\ ui_lock' = [ui_lock EXCEPT !.readers = @ + 1]
              /\ rnd_pc' = "clone_ui"
    /\ UNCHANGED <<market_data, ui_data, md_lock, gen_vars, agg_vars,
                   md_vec, ui_vec, md_seen, ui_seen,
                   md_log, ui_log, agg_mark, skew>>

\* line 130: .clone(); the read guard is a temporary, dropped with the statement
RndCloneUi ==
    /\ rnd_pc = "clone_ui"
    /\ ui_vec' = ui_data
    /\ ui_seen' = [i \in Idx |-> Len(ui_log[i])]
    /\ ui_lock' = [ui_lock EXCEPT !.readers = @ - 1]
    /\ rnd_pc' = "draw"
    /\ UNCHANGED <<market_data, ui_data, md_lock, gen_vars, agg_vars,
                   md_vec, md_seen, md_log, ui_log, agg_mark, skew>>

\* lines 132-224: terminal.draw(..) reads only the two local copies;
\* line 226: thread::sleep(50 ms); line 227: md_vec and ui_vec go out of scope
RndDraw ==
    /\ rnd_pc = "draw"
    /\ rnd_pc' = "poll"
    /\ md_vec' = <<>> /\ ui_vec' = <<>>
    /\ md_seen' = <<>> /\ ui_seen' = <<>>
    /\ skew' = "none"
    /\ UNCHANGED <<market_data, ui_data, md_lock, ui_lock, gen_vars,
                   agg_vars, md_log, ui_log, agg_mark>>

\* lines 229-232: terminal teardown, then main returns and the process exits
RndExit ==
    /\ rnd_pc = "teardown"
    /\ rnd_pc' = "exited"
    /\ UNCHANGED <<market_data, ui_data, md_lock, ui_lock, gen_vars,
                   agg_vars, md_vec, ui_vec, md_seen, ui_seen,
                   md_log, ui_log, agg_mark, skew>>

\* ------------------------------------------------------------ specification
Generator == GenLock \/ GenPrice \/ GenPush \/ GenEvict
                \/ GenUnlock \/ GenSleep
Aggregator == AggLock \/ AggValue \/ AggPush \/ AggEvict
                \/ AggUnlock \/ AggSleep
Renderer == RndPoll \/ RndReadMd \/ RndCloneMd \/ RndReadUi \/ RndCloneUi
                \/ RndDraw \/ RndExit

Next == Generator \/ Aggregator \/ Renderer

Spec == Init /\ [][Next]_vars

\* the same program, observed from a state late in a run
SpecLate == InitLate /\ [][Next]_vars

\* the scheduling of the three loops: a thread that can take its next step
\* takes it; a thread that asks for a lock which is free again and again is
\* granted it (an unlock wakes the waiters, and every holder sleeps between
\* two holds)
Fairness ==
    /\ SF_vars(Generator)
    /\ SF_vars(Aggregator)
    /\ SF_vars(Renderer)

SpecFair == Init /\ [][Next]_vars /\ Fairness

\* the program when a statement under a write guard can panic
NextPanic == Next \/ GenPanic \/ AggPanic

SpecPanic == Init /\ [][NextPanic]_vars

SpecPanicFair == SpecPanic /\ Fairness

\* ================================================================== claims
\* the HFT updater is inside the loop body of entry i, after the price is
\* computed and before the history is brought up to date
MidBody(i) == md_lock.writer /\ gen_i = i /\ gen_pc \in {"push", "evict"}

\* the prices the late run computed for every entry, in order
LateTicks == [k \in 1..LatePasses |-> StartValue + k * DownDraw]

\* everything appended to every history before InitLate: the pre-fill, then
\* the ticks of the late run
LateStream == Fill(StartValue, HISTORY_LEN) \o LateTicks

\* everything ever appended to the history of entry i under SpecLate
Stream(i) == LateStream \o md_log[i]

\* ---------------------------------------------------------------------- C1
\* C1: for every instrument the length of the raw history never exceeds
\* HISTORY_LEN, in the shared vector (outside the one statement between push
\* and remove of the pass in progress) and in every clone of it.
C1_HistoryBounded ==
    /\ \A i \in Idx :
        \/ md_lock.writer /\ gen_i = i /\ gen_pc = "evict"
        \/ Len(market_data[i].history) <= HISTORY_LEN
    /\ md_vec # <<>> => \A i \in Idx : Len(md_vec[i].history) <= HISTORY_LEN

C1_Witness ==
    /\ gen_passes >= 2 /\ gen_pc = "sleep"
    /\ \A i \in Idx : Len(market_data[i].history) = HISTORY_LEN /\ Len(md_log[i]) = 2

\* ---------------------------------------------------------------------- C2
RECURSIVE TickRun(_, _, _)
\* TickEntry applied once per draw of ds, in order
TickRun(e, ds, cap) ==
    IF ds = <<>> THEN e
    ELSE TickRun(TickEntry(e, Head(ds), e.last_update + 1, cap), Tail(ds), cap)

\* the end-to-end scenario: cap 5, start 100.0, five draws of 0, then +3.0
ScenarioStart ==
    [count |-> 0, price |-> StartValue, last_update |-> 1,
     history |-> Fill(StartValue, 5)]

\* the scenario after five draws of 0, and after the sixth draw of +3.0
ScenarioFive == TickRun(ScenarioStart, <<0, 0, 0, 0, 0>>, 5)
ScenarioSix == TickRun(ScenarioStart, <<0, 0, 0, 0, 0, 3 * Scale>>, 5)

\* C2: between loop bodies the raw history of every instrument is the last
\* HISTORY_LEN elements of (pre-fill, then every price computed, in order)
\* and the price is the last of them; and the scenario with cap 5 ends in
\* [100, 100, 100, 100, 103] with price 103.
C2_MostRecentInOrder ==
    /\ \A i \in Idx : ~MidBody(i) =>
        /\ market_data[i].history = LastN(Stream(i), HISTORY_LEN)
        /\ market_data[i].price = Last(Stream(i))
    /\ ScenarioFive.history = Fill(StartValue, 5)
    /\ ScenarioSix.history = <<StartValue, StartValue, StartValue, StartValue,
                               103 * Scale>>
    /\ ScenarioSix.price = 103 * Scale

C2_Witness ==
    /\ gen_passes = 2 /\ gen_pc = "sleep"
    /\ LET h == market_data[1].history
       IN  /\ h[HISTORY_LEN] = md_log[1][2]
           /\ h[HISTORY_LEN - 1] = md_log[1][1]
           /\ md_log[1][1] # md_log[1][2]
           /\ h[1] = LateMarketData[1].history[3]
           /\ h[1] # LateMarketData[1].history[1]

\* ---------------------------------------------------------------------- C3
\* the step of the Frontend updater that writes the value of entry agg_i
AggWrote == agg_pc = "value" /\ agg_pc' = "push"

\* C3 as claimed: the value written is the mean of the last min(W, length)
\* elements of the raw history of the same instrument, for some window W.
C3_DerivedIsWindowMean ==
    [][AggWrote =>
        \E W \in 1..HISTORY_LEN :
            LET win == LastN(market_data[agg_i].history, W)
            IN  ui_data'[agg_i].value * Len(win) = SumSeq(win)]_vars

\* C3 as amended: the value written is the previous value of the same entry
\* plus a perturbation of the range -2.0..2.0; the step writes no other entry
\* and does not touch market_data.
C3_DerivedIsRandomWalk ==
    [][AggWrote =>
        /\ ui_data'[agg_i].value - ui_data[agg_i].value \in AggRange
        /\ \A j \in Idx \ {agg_i} : ui_data'[j] = ui_data[j]
        /\ market_data' = market_data]_vars

C3_Witness ==
    /\ agg_pc = "push"
    /\ market_data = NewMarketData
    /\ ui_data[agg_i].value # StartValue
    /\ ui_data[agg_i].value - Last(ui_data[agg_i].history) \in AggRange

\* ---------------------------------------------------------------------- C4
\* C4 as claimed, for the runs in which no tick() pass has begun at all: at
\* the end of a second Frontend pass every value is what it was at the end
\* of the first.
C4_AggregateTwiceSame ==
    (agg_pc = "unlock" /\ agg_passes >= 2 /\ gen_passes = 0) =>
        \A i \in Idx : ui_data[i].value = agg_mark[i]

\* C4 as amended: at the end of a Frontend pass every value differs from
\* what it was at the end of the pass before by one perturbation of the
\* range -2.0..2.0, whether or not a tick came in between.
C4_AggregateTwiceOneStep ==
    agg_pc = "unlock" =>
        \A i \in Idx : ui_data[i].value - agg_mark[i] \in AggRange

C4_Witness ==
    /\ agg_pc = "unlock" /\ agg_passes = 2 /\ gen_passes = 0
    /\ \A i \in Idx : ui_data[i].value # agg_mark[i]

\* ---------------------------------------------------------------------- C5
NonNegative(e) ==
    /\ e.price >= 0
    /\ \A j \in 1..Len(e.history) : e.history[j] >= 0

\* C5: every price and every element of every raw history is >= 0, and a
\* draw that would take the price below zero leaves it at exactly 0.
C5_PriceNonNegative ==
    /\ \A i \in Idx : NonNegative(market_data[i])
    /\ (gen_pc = "push" /\ Last(market_data[gen_i].history) + gen_delta < 0)
         => market_data[gen_i].price = 0

C5_Witness ==
    /\ gen_pc = "push"
    /\ Last(market_data[gen_i].history) + gen_delta < 0
    /\ market_data[gen_i].price = 0

\* ---------------------------------------------------------------------- C6
\* the clock reading of the k-th tick of entry i under Spec (k = 0: none yet)
TickStamp(i, k) ==
    IF k = 0 THEN NewMarketData[i].last_update
    ELSE 2 * n_stocks + (k - 1) * n_stocks + i

\* C6: in every clone of market_data each entry is of one tick: its price is
\* the last element of its history, price and last_update are those of the
\* last tick the entry had when cloned, and the history has no extra element.
C6_SnapshotEntryConsistent ==
    md_vec # <<>> =>
        \A i \in Idx :
            LET e == md_vec[i]
                k == md_seen[i]
            IN  /\ e.price = Last(e.history)
                /\ e.price = IF k = 0 THEN StartValue ELSE md_log[i][k]
                /\ e.last_update = TickStamp(i, k)
                /\ Len(e.history) # HISTORY_LEN + 1

C6_Witness ==
    /\ md_vec # <<>> /\ md_seen[1] >= 1
    /\ md_vec[1].price # StartValue
    /\ md_lock.writer /\ gen_pc = "push"
    /\ market_data[gen_i].price # Last(market_data[gen_i].history)

\* ---------------------------------------------------------------------- C7
\* C7: a step of the HFT updater leaves ui_data unchanged, a step of the
\* Frontend updater leaves market_data unchanged, a step of the render loop
\* leaves both unchanged.
C7_SingleWriter ==
    [][/\ gen_pc' # gen_pc => ui_data' = ui_data
       /\ agg_pc' # agg_pc => market_data' = market_data
       /\ rnd_pc' # rnd_pc => market_data' = market_data /\ ui_data' = ui_data]_vars

C7_Witness ==
    /\ gen_pc = "sleep" /\ agg_pc = "sleep" /\ rnd_pc = "draw"
    /\ \A i \in Idx : market_data[i].price # StartValue /\ ui_data[i].value # StartValue
    /\ md_vec = NewMarketData /\ ui_vec = ui_data

\* ---------------------------------------------------------------------- C8
\* C8: both vectors have exactly n_stocks entries and the entry at position
\* i (0-based) of each has count i, in every reachable state.
C8_FixedEntries ==
    /\ Len(market_data) = n_stocks /\ Len(ui_data) = n_stocks
    /\ \A i \in Idx : market_data[i].count = i - 1 /\ ui_data[i].count = i - 1

C8_Witness ==
    /\ gen_passes = 1 /\ agg_passes = 1
    /\ gen_pc = "lock" /\ agg_pc = "lock"
    /\ \A i \in Idx : Len(md_log[i]) = 1 /\ Len(ui_log[i]) = 1

\* ---------------------------------------------------------------------- C9
\* C9: between its two clones the render loop holds neither lock, so both
\* writers can run there; the witness is a pair of clones that no single
\* instant of the shared state shows.
C9_NoLockBetweenClones ==
    BetweenClones => md_lock.readers = 0 /\ ui_lock.readers = 0

\* market_data was written after md_vec was cloned, ui_data was written
\* after that, and ui_vec was cloned after that
C9_Witness ==
    /\ rnd_pc = "draw" /\ skew = "torn"
    /\ md_vec # market_data
    /\ \E i \in Idx : md_seen[i] < Len(md_log[i])
    /\ \E i \in Idx : ui_seen[i] > 0

\* --------------------------------------------------------------------- C10
\* C10: in every clone of market_data all entries have had the same number
\* of ticks, and in every clone of ui_data all entries have had the same
\* number of Frontend updates.
C10_PassAtomicForReaders ==
    /\ md_vec # <<>> => \A i, j \in Idx : md_seen[i] = md_seen[j]
    /\ ui_vec # <<>> => \A i, j \in Idx : ui_seen[i] = ui_seen[j]

C10_Witness ==
    /\ md_vec # <<>> /\ \A i \in Idx : md_seen[i] = 1
    /\ md_lock.writer
    /\ Len(md_log[1]) = 2 /\ Len(md_log[n_stocks]) = 1

\* --------------------------------------------------------------------- C11
\* the Frontend updater is inside the loop body of entry i, after the value
\* is computed and before the history is brought up to date
MidAggBody(i) == ui_lock.writer /\ agg_i = i /\ agg_pc \in {"push", "evict"}

\* everything ever appended to the history of UiData entry i under SpecLate
UiStream(i) == LateStream \o ui_log[i]

\* C11: the history of every UiData entry never exceeds HISTORY_LEN (outside
\* the one statement between push and remove of the pass in progress, and in
\* every clone); between loop bodies it is the last HISTORY_LEN elements of
\* (pre-fill, then every value computed, in order), so each pass appended at
\* the end and evicted the oldest; and its last element is the value.
C11_DerivedRingBuffer ==
    /\ \A i \in Idx :
        \/ ui_lock.writer /\ agg_i = i /\ agg_pc = "evict"
        \/ Len(ui_data[i].history) <= HISTORY_LEN
    /\ ui_vec # <<>> => \A i \in Idx : Len(ui_vec[i].history) <= HISTORY_LEN
    /\ \A i \in Idx : ~MidAggBody(i) =>
        /\ ui_data[i].history = LastN(UiStream(i), HISTORY_LEN)
        /\ ui_data[i].value = Last(ui_data[i].history)

C11_Witness ==
    /\ agg_passes = 2 /\ agg_pc = "sleep"
    /\ LET h == ui_data[1].history
       IN  /\ Len(h) = HISTORY_LEN
           /\ h[HISTORY_LEN] = ui_log[1][2]
           /\ h[HISTORY_LEN - 1] = ui_log[1][1]
           /\ ui_log[1][1] # ui_log[1][2]
           /\ h[1] = LateUiData[1].history[3]
           /\ h[1] # LateUiData[1].history[1]

\* --------------------------------------------------------------------- C12
\* the statements at which each updater thread holds its write guard
GenHolds == gen_pc \in {"price", "push", "evict", "unlock"}
AggHolds == agg_pc \in {"value", "push", "evict", "unlock"}

\* a thread is at a lock acquisition that cannot return in this state
GenWaits == gen_pc = "lock" /\ ~CanWrite(md_lock)
AggWaits == agg_pc = "lock" /\ ~CanWrite(ui_lock)
RndWaits ==
    \/ rnd_pc = "read_md" /\ ~CanRead(md_lock)
    \/ rnd_pc = "read_ui" /\ ~CanRead(ui_lock)

\* C12: every lock is held exactly by the threads that are inside their
\* guarded statements: an updater holds its write guard only inside its block
\* (not while it sleeps), the render loop holds a read guard only inside a
\* clone statement (not while it polls, draws or sleeps) and never both read
\* guards at once; a thread that waits for a lock waits for a thread that
\* does not wait itself, and until the process has exited some step is
\* always possible.
C12_LockDiscipline ==
    /\ md_lock.writer <=> GenHolds
    /\ ui_lock.writer <=> AggHolds
    /\ md_lock.readers = (IF rnd_pc = "clone_md" THEN 1 ELSE 0)
    /\ ui_lock.readers = (IF rnd_pc = "clone_ui" THEN 1 ELSE 0)
    /\ ~(md_lock.readers > 0 /\ ui_lock.readers > 0)
    /\ gen_pc = "sleep" => ~md_lock.writer
    /\ agg_pc = "sleep" => ~ui_lock.writer
    /\ rnd_pc \in {"poll", "draw", "teardown", "exited"} =>
            md_lock.readers = 0 /\ ui_lock.readers = 0
    /\ GenWaits => rnd_pc = "clone_md"
    /\ AggWaits => rnd_pc = "clone_ui"
    /\ RndWaits => (IF rnd_pc = "read_md" THEN GenHolds ELSE AggHolds)
    /\ ~(GenWaits /\ AggWaits /\ RndWaits)
    /\ rnd_pc # "exited" => ENABLED Next

\* both locks are write-held at once, by the two updater threads, while the
\* render loop, holding nothing, waits for the second of them
C12_Witness ==
    /\ RndWaits /\ rnd_pc = "read_ui"
    /\ md_lock.writer /\ ui_lock.writer
    /\ gen_passes = 1 /\ agg_passes = 1

\* --------------------------------------------------------------------- C13
\* the process has exited, or all the passes explored have been begun
Exited == rnd_pc = "exited"
PassesUsed == gen_passes + agg_passes >= MaxPasses

QuitSeen == rnd_pc \in {"teardown", "exited"}

\* the state of the two updater threads and of what they write
UpdaterState == <<market_data, ui_data, md_lock, ui_lock, gen_vars, agg_vars>>

\* C14: once the render loop has seen 'q' it holds no read lock and no clone,
\* and from then on it takes no read lock and no clone and does not come
\* back into the loop; the exit is possible whatever the updaters are doing
\* and is a step of the main thread alone; until the exit the updaters go on
\* as before, and after it no step happens at all.
C14_Shutdown ==
    /\ [](QuitSeen =>
            /\ md_lock.readers = 0 /\ ui_lock.readers = 0
            /\ md_vec = <<>> /\ ui_vec = <<>>)
    /\ [](rnd_pc = "teardown" => ENABLED RndExit)
    /\ [][/\ QuitSeen => /\ QuitSeen'
                          /\ md_vec' = md_vec /\ ui_vec' = ui_vec
                          /\ md_lock'.readers = md_lock.readers
                          /\ ui_lock'.readers = ui_lock.readers
          /\ (rnd_pc = "teardown" /\ rnd_pc' = "exited") =>
                UNCHANGED UpdaterState
          /\ rnd_pc # "exited"]_vars

\* the process has exited while both updaters were in the middle of a pass,
\* holding their write locks
C14_Witness ==
    /\ rnd_pc = "exited"
    /\ md_lock.writer /\ ui_lock.writer
    /\ gen_pc = "push" /\ agg_pc = "evict"

\* --------------------------------------------------------------------- C15
\* what C15 says of one collection: lock l around data d, cloned into c by
\* the render loop after the read() at statement rd
PoisonStops(l, d, c, rd) ==
    l.poisoned =>
        /\ l'.poisoned
        /\ d' = d
        /\ c' = c \/ c' = <<>>
        /\ ~l'.writer /\ l'.readers = 0
        /\ (rnd_pc = rd /\ rnd_pc' # rnd_pc) => rnd_pc' = "exited"

\* once the writer of a collection has panicked under its write guard, the
\* lock stays poisoned, is never held again, the collection is never
\* written and never cloned again, its writer thread is dead, and the render
\* loop's next read() of it ends the process instead of yielding a clone
PoisonSafe ==
    /\ [](md_lock.poisoned => gen_pc = "panicked" /\ md_lock = [Unlocked EXCEPT !.poisoned = TRUE])
    /\ [](ui_lock.poisoned => agg_pc = "panicked" /\ ui_lock = [Unlocked EXCEPT !.poisoned = TRUE])
    /\ [][/\ PoisonStops(md_lock, market_data, md_vec, "read_md")
          /\ PoisonStops(ui_lock, ui_data, ui_vec, "read_ui")]_vars

\* under Fairness a poisoned lock leads to the exit of the process
PoisonFatal ==
    (md_lock.poisoned \/ ui_lock.poisoned) ~> Exited

\* C15: once the writer of a collection has panicked under its write guard,
\* no thread reads or writes that collection again, and the process exits.
C15_PoisonedLockFatal == PoisonSafe /\ PoisonFatal

\* the Frontend updater panicked between the value update and the push; the
\* render loop, holding its clone of market_data, then asked for the lock of
\* ui_data and the process has exited there, without a clone of ui_data
C15_Witness ==
    /\ ui_lock.poisoned /\ agg_pc = "panicked" /\ rnd_pc = "exited"
    /\ ui_data[1].value # Last(ui_data[1].history)
    /\ md_vec # <<>> /\ ui_vec = <<>>

\* --------------------------------------------------------------------- C16
Abs(x) == IF x >= 0 THEN x ELSE -x

\* the widths of the two ranges: 1.0 and 2.0
GenStep == 1 * Scale
AggStep == 2 * Scale

\* adjacent elements of h differ by at most step
StepsWithin(h, step) ==
    \A j \in 1..(Len(h) - 1) : Abs(h[j + 1] - h[j]) <= step

\* the step of the HFT updater that writes the price of entry gen_i
GenWrote == gen_pc = "price" /\ gen_pc' = "push"

\* C16: the statement that writes a price changes it by at most 1.0, and by
\* no more than the draw where the floor applies; the statement that writes
\* a value changes it by at most 2.0; adjacent elements of every MarketData
\* history differ by at most 1.0 and adjacent elements of every UiData
\* history by at most 2.0, in the first state and after every step that
\* changes that history, hence in every reachable state.
C16_BoundedStep ==
    /\ \A i \in Idx : /\ StepsWithin(market_data[i].history, GenStep)
                       /\ StepsWithin(ui_data[i].history, AggStep)
    /\ [][/\ \A i \in Idx :
                /\ market_data'[i].history # market_data[i].history =>
                        StepsWithin(market_data'[i].history, GenStep)
                /\ ui_data'[i].history # ui_data[i].history =>
                        StepsWithin(ui_data'[i].history, AggStep)
          /\ GenWrote =>
                LET step == market_data'[gen_i].price - market_data[gen_i].price
                IN  /\ Abs(step) <= GenStep
                    /\ Abs(step) <= Abs(gen_delta')
          /\ AggWrote =>
                Abs(ui_data'[agg_i].value - ui_data[agg_i].value) <= AggStep]_vars

\* a history whose last two steps are a full step down to the floor and a
\* step that the floor shrank to nothing, and a UiData history with a step
\* wider than any price step
C16_Witness ==
    /\ gen_pc = "sleep" /\ agg_pc = "sleep"
    /\ LET h == market_data[1].history
           u == ui_data[1].history
       IN  /\ h[HISTORY_LEN] = 0 /\ h[HISTORY_LEN - 1] = 0
           /\ h[HISTORY_LEN - 2] = GenStep
           /\ md_log[1] # <<>> /\ gen_delta = 0
           /\ Abs(u[HISTORY_LEN] - u[HISTORY_LEN - 1]) > GenStep

\* --------------------------------------------------------------------- C17
\* a clone has n_stocks entries, each with a history of HISTORY_LEN elements
FullClone(v) ==
    /\ Len(v) = n_stocks
    /\ \A i \in 1..Len(v) : Len(v[i].history) = HISTORY_LEN

\* C17: every clone the render loop holds has exactly n_stocks entries whose
\* histories have exactly HISTORY_LEN elements; so when it draws, every
\* position of md_vec is a position of ui_vec and no history it averages is
\* empty.
C17_FullSnapshots ==
    /\ md_vec # <<>> => FullClone(md_vec)
    /\ ui_vec # <<>> => FullClone(ui_vec)
    /\ rnd_pc = "draw" =>
        /\ md_vec # <<>> /\ ui_vec # <<>>
        /\ \A i \in 1..Len(md_vec) :
            /\ i \in DOMAIN ui_vec
            /\ md_vec[i].history # <<>> /\ ui_vec[i].history # <<>>

\* the render loop draws a clone of market_data taken after a pass of the
\* HFT updater, while the shared vector holds a history of HISTORY_LEN + 1
\* elements in the next pass
C17_Witness ==
    /\ rnd_pc = "draw"
    /\ md_seen[1] = 1
    /\ gen_pc = "evict" /\ Len(market_data[gen_i].history) = HISTORY_LEN + 1
    /\ FullClone(md_vec) /\ FullClone(ui_vec)

\* --------------------------------------------------------------------- C18
\* C18: right after the Frontend updater writes a value, the value is the
\* one before it (the last of the history, not yet pushed) plus the draw,
\* whatever the sign of the sum; right after the HFT updater writes a price,
\* the price is that sum only where the sum is not negative, and 0
\* otherwise; and no price and no newest element of a MarketData history is
\* negative.
C18_FloorOnlyOnPrices ==
    /\ agg_pc = "push" =>
            ui_data[agg_i].value = Last(ui_data[agg_i].history) + agg_delta
    /\ gen_pc = "push" =>
            LET sum == Last(market_data[gen_i].history) + gen_delta
            IN  market_data[gen_i].price = (IF sum < 0 THEN 0 ELSE sum)
    /\ \A i \in Idx : /\ market_data[i].price >= 0
                       /\ Last(market_data[i].history) >= 0

\* after a draw of -1.0 at price 0.0 and a draw of -2.0 at value 0.0: the
\* price and the newest element of its history are 0, the value and the
\* newest element of its history are negative
C18_Witness ==
    /\ gen_pc = "sleep" /\ agg_pc = "sleep"
    /\ md_log[1] = <<0>> /\ market_data[1].price = 0
    /\ Last(market_data[1].history) = 0
    /\ ui_data[1].value < 0 /\ Last(ui_data[1].history) < 0
    /\ ui_data[1].value = -2 * Scale

====
